---- MODULE Spec2Model ----
(***************************************************************************)
(* Lunch Roulette: the restaurant list kept by LunchRouletteClient, its    *)
(* add / remove / toggle / reset handlers, the delayed random pick of      *)
(* handleGetSuggestion, and the Genkit flow suggestRestaurant.             *)
(*                                                                         *)
(* A string is a sequence of one-character strings, so that length and     *)
(* trimming are computed and not assumed.                                  *)
(***************************************************************************)
EXTENDS Integers, Sequences, FiniteSets, TLC

VARIABLES
    isClient,      \* useState(false), set by the mount effect
    restaurants,   \* useLocalStorage("restaurants", []): sequence of Restaurant
    nextId,        \* number of ids crypto.randomUUID() has issued so far
    suggestion,    \* useState<string | null>(null)
    isLoading,     \* useState(false)
    dialogOpen,    \* useState(false)
    timers,        \* pending setTimeout callbacks, in the order they will fire
    last,          \* the handler that ran last, its arguments and what it showed
                   \* the user
    flowPc,        \* position of a suggestRestaurant call
    flowInput,     \* its input.restaurants
    flowOutput,    \* `output` of the prompt call: Null or Some(suggestedRestaurant)
    flowResult     \* what the caller of suggestRestaurant gets

vars == <<isClient, restaurants, nextId, suggestion, isLoading, dialogOpen,
          timers, last, flowPc, flowInput, flowOutput, flowResult>>

uiVars == <<isClient, restaurants, nextId, suggestion, isLoading, dialogOpen,
            timers, last>>

flowVars == <<flowPc, flowInput, flowOutput, flowResult>>

----------------------------------------------------------------------------
(* Bounds of the model.                                                    *)

\* ids crypto.randomUUID() may issue in one run (caps the number of adds)
MaxIds == 2

\* setTimeout callbacks that may be pending together
MaxTimers == 2

\* length of the list handed to suggestRestaurant
MaxFlowInput == 3

----------------------------------------------------------------------------
(* Strings.                                                                *)

\* A value of type T | null is a set with at most one element.
Null == {}

Some(x) == {x}

Rep(c, n) == [i \in 1..n |-> c]

\* z.string().min(1, ...)
MinNameLen == 1

\* z.string().max(50, ...)
MaxNameLen == 50

IsWhitespace(c) == c = " "

RECURSIVE TrimStart(_)
TrimStart(s) ==
    IF s # <<>> /\ IsWhitespace(Head(s)) THEN TrimStart(Tail(s)) ELSE s

RECURSIVE TrimEnd(_)
TrimEnd(s) ==
    IF s # <<>> /\ IsWhitespace(s[Len(s)])
    THEN TrimEnd(SubSeq(s, 1, Len(s) - 1))
    ELSE s

\* String.prototype.trim
Trim(s) == TrimEnd(TrimStart(s))

\* What the user may type in the name field: nothing, a name, blanks only,
\* a name between blanks, MaxNameLen - 1 letters followed by two blanks, and
\* MaxNameLen + 1 letters.
NameInputs ==
    { <<>>,
      <<"a">>,
      <<" ", " ">>,
      <<" ", "a", " ">>,
      Rep("a", MaxNameLen - 1) \o <<" ", " ">>,
      Rep("a", MaxNameLen + 1) }

NoError == "none"
ErrEmpty == "Please enter a restaurant name."
ErrTooLong == "Name is too long."

\* formSchema, run by zodResolver on the raw field value
formSchema(value) ==
    IF Len(value) < MinNameLen THEN ErrEmpty
    ELSE IF Len(value) > MaxNameLen THEN ErrTooLong
    ELSE NoError

----------------------------------------------------------------------------
(* The list operations, as the handlers compute them.                      *)

Restaurant(id, name, blacklisted) ==
    [id |-> id, name |-> name, blacklisted |-> blacklisted]

\* a view that forgets to filter
activeRestaurantsUnfiltered(list) == list

\* restaurants.filter(r => !r.blacklisted)
activeRestaurants(list) ==
    SelectSeq(list, LAMBDA r : ~r.blacklisted)

\* restaurants.some(r => r.blacklisted)
hasBlacklisted(list) == \E i \in 1..Len(list) : list[i].blacklisted

\* crypto.randomUUID(): an id never issued before
randomUUID == nextId + 1

\* [...restaurants, newRestaurant]
AddRestaurant(list, id, value) ==
    Append(list, Restaurant(id, Trim(value), FALSE))

\* a removal that matches rows by name
RemoveRestaurantByName(list, id) ==
    LET names == {list[i].name : i \in {j \in 1..Len(list) : list[j].id = id}}
    IN  SelectSeq(list, LAMBDA r : r.name \notin names)

\* restaurants.filter((r) => r.id !== id)
RemoveRestaurant(list, id) ==
    SelectSeq(list, LAMBDA r : r.id # id)

\* restaurants.map((r) => r.id === id ? { ...r, blacklisted: !r.blacklisted } : r)
ToggleBlacklist(list, id) ==
    [i \in 1..Len(list) |->
        IF list[i].id = id
        THEN [list[i] EXCEPT !.blacklisted = ~list[i].blacklisted]
        ELSE list[i]]

\* a reset that flips every flag
ResetBlacklistFlip(list) ==
    [i \in 1..Len(list) |-> [list[i] EXCEPT !.blacklisted = ~list[i].blacklisted]]

\* restaurants.map((r) => ({ ...r, blacklisted: false }))
ResetBlacklist(list) ==
    [i \in 1..Len(list) |-> [list[i] EXCEPT !.blacklisted = FALSE]]

\* a test that lets a single option through
NotEnoughOptionsBelowOne(list) == Len(activeRestaurants(list)) < 1

\* activeRestaurants.length < 2
NotEnoughOptions(list) == Len(activeRestaurants(list)) < 2

\* Math.floor(Math.random() * n): Math.random() is in [0, 1)
RandomIndexes(n) == 0..(n - 1)

----------------------------------------------------------------------------
(* The component.                                                          *)

\* toast({ title: "Not enough options!", ... })
ToastNotEnough == "Not enough options!"

\* What `last` records of a handler run: its name, its arguments, what it
\* showed the user, and for a submission of the form the list it found.
Ran(op, input, id, picked, shown) ==
    [op |-> op, input |-> input, id |-> id, picked |-> picked, shown |-> shown,
     given |-> IF op \in {"add", "addInvalid"} THEN restaurants ELSE <<>>]

Init ==
    /\ isClient = FALSE
    /\ restaurants = <<>>
    /\ nextId = 0
    /\ suggestion = Null
    /\ isLoading = FALSE
    /\ dialogOpen = FALSE
    /\ timers = <<>>
    /\ last = [op |-> "init", input |-> <<>>, id |-> 0, picked |-> Null,
               shown |-> NoError, given |-> <<>>]
    /\ flowPc = "idle"
    /\ flowInput = <<>>
    /\ flowOutput = Null
    /\ flowResult = [kind |-> "none", value |-> Null]

\* useEffect(() => setIsClient(true), [])
MountEffect ==
    /\ ~isClient
    /\ isClient' = TRUE
    /\ UNCHANGED <<restaurants, nextId, suggestion, isLoading, dialogOpen,
                   timers, last>>
    /\ UNCHANGED flowVars

\* The page's controls exist once the component renders (isClient) and are
\* covered by the modal Dialog while it is open.
PageInteractive == isClient /\ ~dialogOpen

\* form.handleSubmit(handleAddRestaurant): the resolver runs on the raw value,
\* the handler only when it passes
handleAddRestaurant ==
    /\ PageInteractive
    /\ \E value \in NameInputs :
        /\ IF formSchema(value) # NoError
           THEN /\ last' = Ran("addInvalid", value, 0, Null, formSchema(value))
                /\ UNCHANGED <<restaurants, nextId>>
           ELSE /\ nextId < MaxIds
                /\ last' = Ran("add", value, randomUUID, Null, NoError)
                /\ restaurants' = AddRestaurant(restaurants, randomUUID, value)
                /\ nextId' = randomUUID
    /\ UNCHANGED <<isClient, suggestion, isLoading, dialogOpen, timers>>
    /\ UNCHANGED flowVars

IdsOf(list) == {list[i].id : i \in 1..Len(list)}

\* onClick={() => handleRemoveRestaurant(restaurant.id)}: one button per row.
\* `last` keeps the list the add was given when the row removed is the one the
\* previous handler added.
handleRemoveRestaurant ==
    /\ PageInteractive
    /\ \E id \in IdsOf(restaurants) :
        /\ restaurants' = RemoveRestaurant(restaurants, id)
        /\ last' = IF last.op = "add" /\ last.id = id
                   THEN [last EXCEPT !.op = "addRemove"]
                   ELSE Ran("remove", <<>>, 0, Null, NoError)
    /\ UNCHANGED <<isClient, nextId, suggestion, isLoading, dialogOpen, timers>>
    /\ UNCHANGED flowVars

\* onCheckedChange={() => handleToggleBlacklist(restaurant.id)}: one switch per row
handleToggleBlacklist ==
    /\ PageInteractive
    /\ \E id \in IdsOf(restaurants) :
        /\ restaurants' = ToggleBlacklist(restaurants, id)
        /\ last' = Ran("toggle", <<>>, 0, Null, NoError)
    /\ UNCHANGED <<isClient, nextId, suggestion, isLoading, dialogOpen, timers>>
    /\ UNCHANGED flowVars

\* onClick={handleResetBlacklist}: the button is rendered when hasBlacklisted
handleResetBlacklist ==
    /\ PageInteractive
    /\ hasBlacklisted(restaurants)
    /\ restaurants' = ResetBlacklist(restaurants)
    /\ last' = Ran("reset", <<>>, 0, Null, NoError)
    /\ UNCHANGED <<isClient, nextId, suggestion, isLoading, dialogOpen, timers>>
    /\ UNCHANGED flowVars

TimerIds == 1..MaxTimers

FreeTimerId ==
    CHOOSE t \in TimerIds :
        /\ \A i \in 1..Len(timers) : timers[i].id # t
        /\ \A u \in TimerIds :
            (\A i \in 1..Len(timers) : timers[i].id # u) => t <= u

\* setTimeout(() => {...}, 1500): the callback closes over activeRestaurants of
\* the render the click happened in
NewTimer(list) ==
    [id |-> FreeTimerId, active |-> activeRestaurants(list)]

\* handleGetSuggestion, up to the setTimeout call. The button is disabled
\* under the condition the handler tests again; the handler's test is the one
\* modelled.
handleGetSuggestion ==
    /\ PageInteractive
    /\ IF NotEnoughOptions(restaurants)
       THEN /\ last' = Ran("pick", <<>>, 0, Null, ToastNotEnough)
            /\ UNCHANGED <<dialogOpen, isLoading, suggestion, timers>>
       ELSE /\ Len(timers) < MaxTimers
            /\ last' = Ran("pick", <<>>, 0, Null, NoError)
            /\ dialogOpen' = TRUE
            /\ isLoading' = TRUE
            /\ suggestion' = Null
            /\ timers' = Append(timers, NewTimer(restaurants))
    /\ UNCHANGED <<isClient, restaurants, nextId>>
    /\ UNCHANGED flowVars

\* a pick that closing the dialog cancels
PickCancelledByClose == ~dialogOpen

\* The timeout is never cleared and its callback tests nothing: a pick, once
\* accepted, is not cancelled.
PickCancelled == FALSE

\* The timeout callback. Callbacks registered with the same delay run in the
\* order they were registered.
TimerCallback ==
    /\ timers # <<>>
    /\ ~PickCancelled
    /\ LET t == Head(timers) IN
        \E randomIndex \in RandomIndexes(Len(t.active)) :
            LET randomRestaurant == t.active[randomIndex + 1] IN
            /\ suggestion' = Some(randomRestaurant.name)
            /\ isLoading' = FALSE
            /\ timers' = Tail(timers)
            /\ last' = Ran("timer", <<randomIndex>>, t.id, Some(randomRestaurant.name), NoError)
    /\ UNCHANGED <<isClient, restaurants, nextId, dialogOpen>>
    /\ UNCHANGED flowVars

\* onOpenChange={setDialogOpen}: Escape, the close button or a click on the
\* overlay call it with false; the page has no DialogTrigger to call it with true
CloseDialog ==
    /\ isClient
    /\ dialogOpen
    /\ dialogOpen' = FALSE
    /\ last' = Ran("close", <<>>, 0, Null, NoError)
    /\ UNCHANGED <<restaurants, nextId, suggestion, isLoading, timers>>
    /\ UNCHANGED isClient
    /\ UNCHANGED flowVars

Next ==
    \/ MountEffect
    \/ handleAddRestaurant
    \/ handleRemoveRestaurant
    \/ handleToggleBlacklist
    \/ handleResetBlacklist
    \/ handleGetSuggestion
    \/ TimerCallback
    \/ CloseDialog

Spec == Init /\ [][Next]_vars

\* The event loop runs a timeout callback once its delay has elapsed.
LiveSpec == Spec /\ WF_vars(TimerCallback)

----------------------------------------------------------------------------
(* The Genkit flow.                                                        *)

FlowNames == {"A", "B", "C"}

RECURSIVE SeqsUpTo(_, _)
SeqsUpTo(S, n) ==
    IF n = 0 THEN {<<>>}
    ELSE LET shorter == SeqsUpTo(S, n - 1) IN
         shorter \cup {Append(q, x) : q \in shorter, x \in S}

\* SuggestRestaurantInputSchema: z.array(z.string())
FlowInputs == SeqsUpTo(FlowNames, MaxFlowInput)

\* SuggestRestaurantOutputSchema: an object with a string suggestedRestaurant
OutputSchemaAccepts(output) == output # Null

\* a flow that hands back whatever its function returned
FlowReturnUnchecked(output) == [kind |-> "value", value |-> output]

\* What defineFlow hands back for the value its function returned: the flow
\* declares outputSchema, and a value the schema rejects is thrown as an error.
FlowReturn(output) ==
    IF OutputSchemaAccepts(output)
    THEN [kind |-> "value", value |-> output]
    ELSE [kind |-> "error", value |-> Null]

\* suggestRestaurant(input) -> suggestRestaurantFlow(input)
suggestRestaurant ==
    /\ flowPc = "idle"
    /\ \E input \in FlowInputs : flowInput' = input
    /\ flowPc' = "prompt"
    /\ flowOutput' = Null
    /\ flowResult' = [kind |-> "none", value |-> Null]
    /\ UNCHANGED uiVars

\* const {output} = await suggestRestaurantPrompt(input): the backend answers
\* with a structured output holding any string, or with none
PromptAnswers ==
    /\ flowPc = "prompt"
    /\ \E output \in {Some(n) : n \in FlowNames} \cup {Null} : flowOutput' = output
    /\ flowPc' = "unwrap"
    /\ UNCHANGED <<flowInput, flowResult>>
    /\ UNCHANGED uiVars

\* return output!  (the assertion is erased at run time)
FlowCompletes ==
    /\ flowPc = "unwrap"
    /\ flowResult' = FlowReturn(flowOutput)
    /\ flowPc' = "done"
    /\ UNCHANGED <<flowInput, flowOutput>>
    /\ UNCHANGED uiVars

\* the caller has its answer; the next call may start
FlowSettled ==
    /\ flowPc = "done"
    /\ flowPc' = "idle"
    /\ UNCHANGED <<flowInput, flowOutput, flowResult>>
    /\ UNCHANGED uiVars

FlowNext ==
    \/ suggestRestaurant
    \/ PromptAnswers
    \/ FlowCompletes
    \/ FlowSettled

FlowSpec == Init /\ [][FlowNext]_vars

----------------------------------------------------------------------------
(* The properties.                                                         *)

\* the records of a list that are not excluded, in order
Eligible(list) == SelectSeq(list, LAMBDA r : r.blacklisted = FALSE)

EligibleCount(list) == Cardinality({i \in 1..Len(list) : ~list[i].blacklisted})

ValidName(name) == Len(name) >= MinNameLen /\ Len(name) <= MaxNameLen

Pending(t) == \E i \in 1..Len(timers) : timers[i].id = t

\* C1: add(name) is decided on the trimmed name. When the trimmed name is
\* empty or longer than 50 characters the submission is refused with a
\* message and the list is as it was; otherwise exactly one record with the
\* trimmed name, a fresh id and excluded = false has been appended.
C1_AddDecidedOnTrimmedName ==
    last.op \in {"add", "addInvalid"} =>
        IF ValidName(Trim(last.input))
        THEN /\ last.op = "add"
             /\ last.id \notin IdsOf(last.given)
             /\ restaurants =
                    Append(last.given,
                           [id |-> last.id, name |-> Trim(last.input),
                            blacklisted |-> FALSE])
        ELSE /\ last.op = "addInvalid"
             /\ last.shown # NoError
             /\ restaurants = last.given

\* C2: every record of the list has a name that is trimmed, non-empty and at
\* most 50 characters long.
C2_NamesTrimmedNonEmptyBounded ==
    \A i \in 1..Len(restaurants) :
        /\ Trim(restaurants[i].name) = restaurants[i].name
        /\ ValidName(restaurants[i].name)

\* C3: at most one delayed pick is pending at any time.
C3_OnePickInFlight == Len(timers) <= 1

\* C4: a pick requested with fewer than 2 non-excluded records is refused with
\* the not-enough-options notice; the dialog, the loading flag, the
\* suggestion, the pending picks and the list stay as they were.
C4_PickRejectedBelowTwo ==
    [][(last'.op = "pick" /\ EligibleCount(restaurants) < 2) =>
        /\ last'.shown = ToastNotEnough
        /\ UNCHANGED <<restaurants, dialogOpen, isLoading, suggestion, timers>>]_vars

C4_Witness ==
    /\ last.op = "pick"
    /\ last.shown = ToastNotEnough
    /\ Len(restaurants) = 2
    /\ EligibleCount(restaurants) = 1
    /\ ~dialogOpen /\ ~isLoading /\ timers = <<>>

C6_AddThenRemoveRestores ==
    /\ last.op = "addRemove" => restaurants = last.given
    /\ \A value \in NameInputs :
        formSchema(value) = NoError =>
            RemoveRestaurant(AddRestaurant(restaurants, randomUUID, value),
                             randomUUID) = restaurants

C6_Witness ==
    /\ last.op = "addRemove"
    /\ Len(restaurants) >= 1
    /\ restaurants[1].name = Trim(last.input)

\* C7: resetExclusions sets excluded = false on every record, keeps the ids,
\* names, length and order of the list, and applying it to its own result
\* changes nothing.
C7_ResetClearsAndIsIdempotent ==
    [][last'.op = "reset" =>
        /\ Len(restaurants') = Len(restaurants)
        /\ \A i \in 1..Len(restaurants) :
            restaurants'[i] =
                [id |-> restaurants[i].id, name |-> restaurants[i].name,
                 blacklisted |-> FALSE]
        /\ ResetBlacklist(restaurants') = restaurants']_vars

C7_Witness ==
    /\ last.op = "reset"
    /\ Len(restaurants) = 2
    /\ restaurants[1].name # restaurants[2].name

C9_AcceptedPickResolves ==
    \A t \in TimerIds :
        Pending(t) ~>
            (/\ last.op = "timer"
             /\ last.id = t
             /\ ~isLoading
             /\ suggestion = last.picked)

\* a pick resolved after the dialog was closed and a record it captured was
\* removed
C9_Witness ==
    /\ last.op = "timer"
    /\ ~dialogOpen
    /\ ~isLoading
    /\ suggestion = last.picked
    /\ Len(restaurants) < 2
    /\ timers = <<>>

\* C10: whenever the loading flag is false and a suggestion is displayed, no
\* delayed pick is pending.
C10_LoadingTracksPendingPicks ==
    (dialogOpen /\ ~isLoading /\ suggestion \notin {Null, Some(<<>>)}) =>
        timers = <<>>

====
